---------------------------- MODULE Spec2Model ----------------------------
(***************************************************************************)
(* A state-machine model of src/app.py, the Flask blogging application:    *)
(* the four tables of blog.db, the login session of each client, and one   *)
(* action per route handler.  Each action answers one HTTP request; the    *)
(* request it served and the response it gave are kept in `request` and    *)
(* `response`, so that properties can speak about what a handler returned. *)
(*                                                                         *)
(* Strings that the code only stores and compares (titles, usernames,      *)
(* passwords, ...) are TLA+ strings.  Article.country is built with        *)
(* ", ".join and taken apart with .split(", "), so country names and the   *)
(* country column are sequences of characters and join/split are computed  *)
(* on them character by character.                                         *)
(***************************************************************************)
EXTENDS Integers, Sequences, FiniteSets, TLC

VARIABLES
    User,               \* rows of table user: [id, username, password_hash]
    Category,           \* ids of the rows of table category
    Article,            \* rows of table article
    article_categories, \* rows of the association table: <<article_id, category_id>>
    session,            \* per client: the user id Flask-Login keeps in the session, 0 if none
    pc,                 \* per client: "idle", or "commit" while register() sits between
                        \* form.validate_on_submit() and db.session.commit()
    pending,            \* per client: the validated registration form awaiting commit
    clock,              \* datetime.utcnow(), advanced by every insert into article
    registered,         \* history: username -> the password typed when it registered
    request,            \* the request served last
    response            \* the response to it

vars == <<User, Category, Article, article_categories, session, pc, pending,
          clock, registered, request, response>>

db == <<User, Category, Article, article_categories>>

-----------------------------------------------------------------------------
(* Bounds and input sets *)

\* Number of inserts into article over a run (each one advances the clock).
MaxClock == 2

\* Number of countries selected in one form, where the selections are enumerated.
MaxSelected == 2

Clients == {"c1", "c2"}
Usernames == {"alice", "bob"}
Passwords == {"pw1", "pw2"}
Salts    == {1, 2}
CategoryIds == {1, 2}
Sources == {"wire", "blog"}
\* The ids a request may name: those the articles of a run can get
ArticleIds == 1 .. MaxClock

-----------------------------------------------------------------------------
(* Character strings: country names, str.join, str.split *)

France  == <<"F", "r", "a", "n", "c", "e">>
Germany == <<"G", "e", "r", "m", "a", "n", "y">>
KoreaRepublicOf ==
    <<"K", "o", "r", "e", "a", ",", " ", "R", "e", "p", "u", "b", "l", "i", "c", " ", "o", "f">>

\* [country.name for country in pycountry.countries], three of its entries
countries == <<France, Germany, KoreaRepublicOf>>

CommaSpace == <<",", " ">>

\* sep.join(list)
RECURSIVE join(_, _)
join(sep, list) ==
    IF list = <<>> THEN <<>>
    ELSE IF Len(list) = 1 THEN list[1]
    ELSE list[1] \o sep \o join(sep, Tail(list))

\* The least index at which sep occurs in s, 0 if it does not occur: str.find
find(s, sep) ==
    LET hits == {i \in 1 .. (Len(s) - Len(sep) + 1) :
                    SubSeq(s, i, i + Len(sep) - 1) = sep}
    IN  IF hits = {} THEN 0 ELSE CHOOSE i \in hits : \A j \in hits : i <= j

\* s.split(sep): cut at every occurrence of sep, left to right
RECURSIVE split(_, _)
split(s, sep) ==
    LET i == find(s, sep)
    IN  IF i = 0 THEN <<s>>
        ELSE <<SubSeq(s, 1, i - 1)>> \o split(SubSeq(s, i + Len(sep), Len(s)), sep)

Range(seq) == {seq[i] : i \in DOMAIN seq}

-----------------------------------------------------------------------------
(* werkzeug.security: the hash is a symbolic one-way term over salt and password *)

Digest(salt, password) == <<"pbkdf2", salt, password>>

generate_password_hash(password, salt) ==
    [salt |-> salt, digest |-> Digest(salt, password)]

\* Faulty variant: any password verifies
check_password_hash_always(pwhash, password) == TRUE

check_password_hash(pwhash, password) ==
    Digest(pwhash.salt, password) = pwhash.digest

\* User.check_password
check_password(u, password) == check_password_hash(u.password_hash, password)

-----------------------------------------------------------------------------
(* Responses *)

NoForm == [none |-> TRUE]

Blank == [status |-> 0, location |-> "", flash |-> "", body |-> "", logged |-> "",
          errors |-> {}, articles |-> <<>>, selected_countries |-> <<>>,
          content_html |-> <<>>]

redirect(location, flash) ==
    [Blank EXCEPT !.status = 302, !.location = location, !.flash = flash]

render_template(template, flash) ==
    [Blank EXCEPT !.status = 200, !.body = template, !.flash = flash]

\* def handle_exception(e): logs e and answers 500
handle_exception(e) ==
    [Blank EXCEPT !.status = 500, !.body = "An internal error occurred", !.logged = e]

\* The classes an exception raised while serving a request is an instance of
mro(e) ==
    IF e \in {"NotFound", "MethodNotAllowed"} THEN {e, "HTTPException", "Exception"}
    ELSE {e, "Exception"}

\* @app.errorhandler(Exception): the classes a handler is registered for
error_handlers == {"Exception"}

\* The status of the response an HTTP error stands for when nothing handles it
default_status(e) ==
    IF e = "NotFound" THEN 404 ELSE IF e = "MethodNotAllowed" THEN 405 ELSE 500

\* Flask answers an exception with the handler registered for one of its classes,
\* the HTTP errors raised by abort() and by the router included
raise(e) ==
    IF mro(e) \cap error_handlers # {} THEN handle_exception(e)
    ELSE [Blank EXCEPT !.status = default_status(e), !.body = e]

\* @login_manager.unauthorized_handler
unauthorized == redirect("home", "You need to be logged in to view that page.")

Req(route, method, c, id, form) ==
    [route |-> route, method |-> method, client |-> c, article_id |-> id, form |-> form]

-----------------------------------------------------------------------------
(* Sessions and users *)

AnonymousUser == [is_authenticated |-> FALSE]

\* load_user / current_user
current_user(c) ==
    IF session[c] = 0 THEN AnonymousUser
    ELSE LET u == CHOOSE u \in User : u.id = session[c]
         IN  [id |-> u.id, username |-> u.username, password_hash |-> u.password_hash,
              is_authenticated |-> TRUE]

\* Faulty variant: the view runs for anonymous sessions too
login_required_skipped(c) == TRUE

\* @login_required lets the view run only for an authenticated session
login_required(c) == current_user(c).is_authenticated

\* The methods each route is registered with
route_methods(route) ==
    IF route \in {"register", "login", "publish", "edit_article"} THEN {"GET", "POST"}
    ELSE IF route = "delete_article" THEN {"POST"}
    ELSE {"GET"}

\* SQLite's INTEGER PRIMARY KEY: one more than the largest id in the table
next_id(rows) ==
    IF rows = {} THEN 1
    ELSE (CHOOSE i \in {r.id : r \in rows} : \A r \in rows : r.id <= i) + 1

\* User.query.filter_by(username=...).first()
users_named(name) == {u \in User : u.username = name}

\* Faulty variant: the column without its unique constraint
unique_username_unenforced(name) == TRUE

\* username = db.Column(db.String(100), unique=True): the INSERT fails when the
\* name is already in the table
unique_username(name) == users_named(name) = {}

\* RegistrationForm: DataRequired on the three fields, EqualTo("password"),
\* validate_username
validate_on_submit(form) ==
    /\ form.username # ""
    /\ form.password # ""
    /\ form.confirm_password # ""
    /\ form.confirm_password = form.password
    /\ users_named(form.username) = {}

-----------------------------------------------------------------------------
(* Queries and rendering *)

\* Article.query.get(article_id)
articles_with_id(id) == {a \in Article : a.id = id}

\* markdown.markdown(text): the HTML is a symbolic term over the Markdown source
markdown(text) == <<"html", text>>

\* The rows as a list, greatest key first; key is a function on the rows
RECURSIVE order_by_desc(_, _)
order_by_desc(rows, key) ==
    IF rows = {} THEN <<>>
    ELSE LET top == CHOOSE r \in rows : \A q \in rows : key[q] <= key[r]
         IN  <<top>> \o order_by_desc(rows \ {top}, key)

\* Article.query.order_by(Article.publish_date.desc()).all()
home_articles == order_by_desc(Article, [a \in Article |-> a.publish_date])

\* Article.query.filter_by(source=source).all(), in rowid order
source_articles(source) ==
    order_by_desc({a \in Article : a.source = source}, [a \in Article |-> 0 - a.id])

ids_of(list) == [i \in DOMAIN list |-> list[i].id]

\* The columns and attributes an instance of User has (UserMixin's included)
UserAttributes ==
    {"id", "username", "password_hash", "is_active", "is_authenticated",
     "is_anonymous", "get_id"}

\* Faulty variant: no ownership check
permission_always(u, a) == "allowed"

\* current_user.username == article.author or current_user.is_admin
permission(u, a) ==
    IF "username" \notin DOMAIN u THEN "AttributeError"
    ELSE IF u.username = a.author THEN "allowed"
    ELSE IF "is_admin" \notin UserAttributes THEN "AttributeError"
    ELSE IF u.is_admin THEN "allowed"
    ELSE "denied"

\* Category.query.filter(Category.id.in_(selected_category_ids)).all()
\* Faulty variant: the submitted ids taken without the lookup
selected_categories_unfiltered(ids) == Range(ids)

selected_categories(ids) == {k \in Category : k \in Range(ids)}

-----------------------------------------------------------------------------
(* Initial state: db.create_all() has made the tables; the category table holds  *)
(* the rows put there by hand, the application having no route that adds one.   *)

Init ==
    /\ User = {}
    /\ Category = CategoryIds
    /\ Article = {}
    /\ article_categories = {}
    /\ session = [c \in Clients |-> 0]
    /\ pc = [c \in Clients |-> "idle"]
    /\ pending = [c \in Clients |-> NoForm]
    /\ clock = 0
    /\ registered = [n \in Usernames |-> ""]
    /\ request = Req("", "", "", 0, NoForm)
    /\ response = Blank

\* A request that is answered at once and changes nothing but what is listed
Answer(req, resp) ==
    /\ request' = req
    /\ response' = resp

-----------------------------------------------------------------------------
(* /register *)

register(c, method, form) ==
    /\ pc[c] = "idle"
    /\ IF current_user(c).is_authenticated
       THEN /\ Answer(Req("register", method, c, 0, form), redirect("home", ""))
            /\ UNCHANGED <<pc, pending>>
       ELSE IF method = "POST" /\ validate_on_submit(form)
       THEN /\ pc' = [pc EXCEPT ![c] = "commit"]
            /\ pending' = [pending EXCEPT ![c] = form]
            /\ UNCHANGED <<request, response>>
       ELSE /\ Answer(Req("register", method, c, 0, form),
                      [render_template("register.html", "") EXCEPT !.errors =
                         IF method = "GET" THEN {}
                         ELSE (IF form.username = "" THEN {"This field is required."}
                               ELSE {})
                              \cup (IF form.confirm_password # form.password
                                    THEN {"Field must be equal to password."} ELSE {})
                              \cup (IF users_named(form.username) # {}
                                    THEN {"That username is already taken. Please choose a different one."}
                                    ELSE {})])
            /\ UNCHANGED <<pc, pending>>
    /\ UNCHANGED <<db, session, clock, registered>>

\* hashed_password = ...; db.session.add(user); db.session.commit()
register_commit(c, salt) ==
    /\ pc[c] = "commit"
    /\ LET form == pending[c]
       IN  /\ request' = Req("register", "POST", c, 0, form)
           /\ IF unique_username(form.username)
              THEN /\ User' = User \cup
                        {[id |-> next_id(User), username |-> form.username,
                          password_hash |-> generate_password_hash(form.password, salt)]}
                   /\ registered' = [registered EXCEPT ![form.username] = form.password]
                   /\ response' = redirect("login",
                        "Your account has been created! You are now able to log in")
              ELSE /\ response' = raise("IntegrityError")
                   /\ UNCHANGED <<User, registered>>
    /\ pc' = [pc EXCEPT ![c] = "idle"]
    /\ pending' = [pending EXCEPT ![c] = NoForm]
    /\ UNCHANGED <<Category, Article, article_categories, session, clock>>

-----------------------------------------------------------------------------
(* /login, /logout *)

login(c, method, form) ==
    /\ pc[c] = "idle"
    /\ request' = Req("login", method, c, 0, form)
    /\ IF method = "POST"
       THEN LET found == users_named(form.username)
                user == CHOOSE u \in found : TRUE
            IN  IF found # {} /\ check_password(user, form.password)
                THEN /\ session' = [session EXCEPT ![c] = user.id]
                     /\ response' = redirect("home", "")
                ELSE /\ response' = render_template("login.html",
                                                    "Invalid username or password")
                     /\ UNCHANGED session
       ELSE /\ response' = render_template("login.html", "")
            /\ UNCHANGED session
    /\ UNCHANGED <<db, pc, pending, clock, registered>>

logout(c) ==
    /\ pc[c] = "idle"
    /\ request' = Req("logout", "GET", c, 0, NoForm)
    /\ IF login_required(c)
       THEN /\ session' = [session EXCEPT ![c] = 0]
            /\ response' = redirect("home", "")
       ELSE /\ response' = unauthorized
            /\ UNCHANGED session
    /\ UNCHANGED <<db, pc, pending, clock, registered>>

-----------------------------------------------------------------------------
(* /, /article/<id>, /source/<source> *)

home(c) ==
    /\ pc[c] = "idle"
    /\ Answer(Req("home", "GET", c, 0, NoForm),
              [render_template("home.html", "") EXCEPT
                 !.articles = ids_of(home_articles),
                 !.content_html = [i \in DOMAIN home_articles |->
                                     markdown(home_articles[i].content)]])
    /\ UNCHANGED <<db, session, pc, pending, clock, registered>>

article(c, article_id) ==
    /\ pc[c] = "idle"
    /\ LET found == articles_with_id(article_id)
           a == CHOOSE a \in found : TRUE
       IN  Answer(Req("article", "GET", c, article_id, NoForm),
                  IF found = {} THEN raise("NotFound")
                  ELSE [render_template("article.html", "") EXCEPT
                          !.articles = <<a.id>>,
                          !.content_html = <<markdown(a.content)>>])
    /\ UNCHANGED <<db, session, pc, pending, clock, registered>>

articles_by_source(c, source) ==
    /\ pc[c] = "idle"
    /\ Answer(Req("articles_by_source", "GET", c, 0, [source |-> source]),
              [render_template("source_articles.html", "") EXCEPT
                 !.articles = ids_of(source_articles(source))])
    /\ UNCHANGED <<db, session, pc, pending, clock, registered>>

-----------------------------------------------------------------------------
(* /publish *)

\* Article(title=..., content=..., author=..., country=..., ...) with its source,
\* the id and the publish_date the INSERT gives it
new_article(form, author) ==
    [id |-> next_id(Article),
     title |-> form.title,
     content |-> form.content,
     author |-> author,
     publish_date |-> clock + 1,
     country |-> join(CommaSpace, form.countries),
     download_link |-> form.download_link,
     article_type |-> form.type,
     source |-> form.source]

publish(c, method, form) ==
    /\ pc[c] = "idle"
    /\ request' = Req("publish", method, c, 0, form)
    /\ IF method \notin route_methods("publish")
       THEN /\ response' = raise("MethodNotAllowed")
            /\ UNCHANGED <<Article, article_categories, clock>>
       ELSE IF ~login_required(c)
       THEN /\ response' = unauthorized
            /\ UNCHANGED <<Article, article_categories, clock>>
       ELSE IF method = "GET"
       THEN /\ response' = render_template("publish.html", "")
            /\ UNCHANGED <<Article, article_categories, clock>>
       ELSE IF "username" \notin DOMAIN current_user(c)
       THEN /\ response' = raise("AttributeError")
            /\ UNCHANGED <<Article, article_categories, clock>>
       ELSE LET a == new_article(form, current_user(c).username)
            IN  /\ clock < MaxClock
                /\ Article' = Article \cup {a}
                /\ article_categories' = article_categories \cup
                      {<<a.id, k>> : k \in selected_categories(form.categories)}
                /\ clock' = clock + 1
                /\ response' = redirect("home", "Article published successfully.")
    /\ UNCHANGED <<User, Category, session, pc, pending, registered>>

-----------------------------------------------------------------------------
(* /edit/<id> *)

\* Faulty variant: the title assignment left out
edited_without_title(a, form) ==
    [a EXCEPT !.content = form.content,
              !.country = join(CommaSpace, form.countries),
              !.article_type = form.type,
              !.download_link = form.download_link]

\* The assignments of the POST branch
edited(a, form) ==
    [a EXCEPT !.title = form.title,
              !.content = form.content,
              !.country = join(CommaSpace, form.countries),
              !.article_type = form.type,
              !.download_link = form.download_link]

\* article.country.split(", ") if article.country else []
selected_countries(a) ==
    IF a.country # <<>> THEN split(a.country, CommaSpace) ELSE <<>>

edit_article(c, method, article_id, form) ==
    /\ pc[c] = "idle"
    /\ request' = Req("edit_article", method, c, article_id, form)
    /\ LET found == articles_with_id(article_id)
           a == CHOOSE a \in found : TRUE
       IN  IF method \notin route_methods("edit_article")
           THEN /\ response' = raise("MethodNotAllowed")
                /\ UNCHANGED Article
           ELSE IF ~login_required(c)
           THEN /\ response' = unauthorized
                /\ UNCHANGED Article
           ELSE IF found = {}
           THEN /\ response' = raise("NotFound")
                /\ UNCHANGED Article
           ELSE IF permission(current_user(c), a) = "AttributeError"
           THEN /\ response' = raise("AttributeError")
                /\ UNCHANGED Article
           ELSE IF permission(current_user(c), a) = "denied"
           THEN /\ response' = redirect("home",
                                  "You do not have permission to edit this article.")
                /\ UNCHANGED Article
           ELSE IF method = "POST"
           THEN /\ Article' = (Article \ {a}) \cup {edited(a, form)}
                /\ response' = redirect("article", "Article updated successfully.")
           ELSE /\ response' = [render_template("edit_article.html", "") EXCEPT
                                  !.articles = <<a.id>>,
                                  !.selected_countries = selected_countries(a)]
                /\ UNCHANGED Article
    /\ UNCHANGED <<User, Category, article_categories, session, pc, pending, clock,
                   registered>>

-----------------------------------------------------------------------------
(* /delete_article/<id> *)

\* Faulty variant: the association rows survive the delete
links_left_behind(article_id) == article_categories

\* The association rows that remain once the ORM has deleted the article: it
\* deletes the rows of the secondary table that belong to the deleted parent
links_after_delete(article_id) ==
    {p \in article_categories : p[1] # article_id}

delete_article(c, method, article_id) ==
    /\ pc[c] = "idle"
    /\ request' = Req("delete_article", method, c, article_id, NoForm)
    /\ LET found == articles_with_id(article_id)
           a == CHOOSE a \in found : TRUE
       IN  IF method \notin route_methods("delete_article")
           THEN /\ response' = raise("MethodNotAllowed")
                /\ UNCHANGED <<Article, article_categories>>
           ELSE IF ~login_required(c)
           THEN /\ response' = unauthorized
                /\ UNCHANGED <<Article, article_categories>>
           ELSE IF found = {}
           THEN /\ response' = raise("NotFound")
                /\ UNCHANGED <<Article, article_categories>>
           ELSE IF permission(current_user(c), a) = "AttributeError"
           THEN /\ response' = raise("AttributeError")
                /\ UNCHANGED <<Article, article_categories>>
           ELSE IF permission(current_user(c), a) = "denied"
           THEN /\ response' = redirect("home",
                                  "You do not have permission to delete this article.")
                /\ UNCHANGED <<Article, article_categories>>
           ELSE /\ Article' = Article \ {a}
                /\ article_categories' = links_after_delete(article_id)
                /\ response' = redirect("home", "Article deleted successfully.")
    /\ UNCHANGED <<User, Category, session, pc, pending, clock, registered>>

-----------------------------------------------------------------------------
(* Requests *)

ArticleForm1 ==
    [title |-> "Router zero-day", content |-> "# Details",
     countries |-> <<France, Germany>>, type |-> "Hack",
     download_link |-> "http://files/1", source |-> "wire", categories |-> <<1, 3>>]

ArticleForm2 ==
    [title |-> "Port scan", content |-> "*tbd*",
     countries |-> <<KoreaRepublicOf>>, type |-> "News",
     download_link |-> "", source |-> "blog", categories |-> <<2>>]

ArticleForms == {ArticleForm1, ArticleForm2}

\* The names at the positions `chosen` of a list, in the list's order: what a
\* <select multiple> submits
RECURSIVE selection(_, _)
selection(list, chosen) ==
    IF list = <<>> THEN <<>>
    ELSE (IF Len(list) \in chosen THEN selection(SubSeq(list, 1, Len(list) - 1), chosen)
                                         \o <<list[Len(list)]>>
          ELSE selection(SubSeq(list, 1, Len(list) - 1), chosen))

Selections ==
    {selection(countries, chosen) :
        chosen \in {S \in SUBSET (DOMAIN countries) : Cardinality(S) <= MaxSelected}}

\* Forms that differ in the countries selected only
CountryForms == {[ArticleForm1 EXCEPT !.countries = sel] : sel \in Selections}

\* A method with the form it carries
WithForms(forms) == {<<"GET", NoForm>>} \cup {<<"POST", f>> : f \in forms}

RegistrationForms ==
    [username : Usernames, password : Passwords, confirm_password : Passwords]
      \cup {[username |-> "", password |-> "pw1", confirm_password |-> "pw1"]}

LoginForms == [username : Usernames, password : Passwords]

\* The accounts used where the articles are what is looked at
AuthorRegistrationForms ==
    {[username |-> n, password |-> "pw1", confirm_password |-> "pw1"] : n \in Usernames}

AuthorLoginForms == {[username |-> n, password |-> "pw1"] : n \in Usernames}

Accounts(c, registrations, logins, salts) ==
    \/ \E r \in WithForms(registrations) : register(c, r[1], r[2])
    \/ \E salt \in salts : register_commit(c, salt)
    \/ \E r \in WithForms(logins) : login(c, r[1], r[2])
    \/ logout(c)

Reading(c) ==
    \/ home(c)
    \/ \E id \in ArticleIds : article(c, id)
    \/ \E source \in Sources : articles_by_source(c, source)

Writing(c) ==
    \/ \E r \in WithForms(ArticleForms) : publish(c, r[1], r[2])
    \/ \E r \in WithForms(ArticleForms), id \in ArticleIds :
          edit_article(c, r[1], id, r[2])
    \/ \E method \in {"GET", "POST"}, id \in ArticleIds : delete_article(c, method, id)

\* One browser, two authors, the whole application
Next ==
    \/ Accounts("c1", AuthorRegistrationForms, AuthorLoginForms, {1})
    \/ Reading("c1")
    \/ Writing("c1")

Spec == Init /\ [][Next]_vars

\* Two browsers registering and logging in concurrently
NextAccounts ==
    \E c \in Clients :
        \/ Accounts(c, RegistrationForms, LoginForms, Salts)
        \/ home(c)

SpecAccounts == Init /\ [][NextAccounts]_vars

\* One author publishing and editing with every selection of countries
NextCountries ==
    \/ Accounts("c1", {[username |-> "alice", password |-> "pw1",
                          confirm_password |-> "pw1"]},
                 {[username |-> "alice", password |-> "pw1"]}, {1})
    \/ \E r \in WithForms(CountryForms) : publish("c1", r[1], r[2])
    \/ \E r \in WithForms(CountryForms), id \in ArticleIds :
          edit_article("c1", r[1], id, r[2])

SpecCountries == Init /\ [][NextCountries]_vars

-----------------------------------------------------------------------------
(* Vocabulary of the properties *)

\* The step answers a request (register's step from validation to commit answers
\* none and leaves `request` as it was)
Answered == pc' = pc \/ \E c \in Clients : pc[c] = "commit" /\ pc'[c] = "idle"

\* The step answers a request to one of the routes, made by a client
Serves(routes) == Answered /\ request'.route \in routes

\* The username of the session of client c, "" for an anonymous session
username_of(c) ==
    IF session[c] = 0 THEN ""
    ELSE (CHOOSE u \in User : u.id = session[c]).username

\* The category ids linked to an article id in a set of association rows
categories_of(links, article_id) == {p[2] : p \in {q \in links : q[1] = article_id}}

PermissionMessages ==
    {"You do not have permission to edit this article.",
     "You do not have permission to delete this article."}

-----------------------------------------------------------------------------
(* C1 *)

NoDuplicateUsernames ==
    \A u, v \in User : u.username = v.username => u = v

DuplicateRegistrationRejected ==
    (Serves({"register"}) /\ request'.method = "POST"
       /\ users_named(request'.form.username) # {})
    => /\ User' = User
       /\ ~(response'.status = 302 /\ response'.location = "login")

\* C1: whatever the order in which register requests are served, and however their
\* validation and commit steps interleave, no two rows of the user table have the
\* same username; a register POST whose username is already stored adds no row
\* and is not answered with the success redirect.
C1_UniqueUsernames ==
    [](NoDuplicateUsernames) /\ [][DuplicateRegistrationRejected]_vars

\* Two registrations of one name both passed validation; the second commit failed
C1_Witness ==
    /\ request.route = "register"
    /\ response.logged = "IntegrityError"
    /\ users_named(request.form.username) # {}

-----------------------------------------------------------------------------
(* C4 *)

LoginDecidedByRegisteredPassword ==
    (Serves({"login"}) /\ request'.method = "POST")
    => LET c == request'.client
           f == request'.form
           match == {u \in User : u.username = f.username
                                  /\ registered[u.username] = f.password}
       IN  /\ User' = User
           /\ IF match # {}
              THEN /\ \E u \in match : session' = [session EXCEPT ![c] = u.id]
                   /\ response' = redirect("home", "")
              ELSE /\ session' = session
                   /\ response'.status = 200
                   /\ response'.flash = "Invalid username or password"

\* C4: a login POST makes the session that of user u exactly when a stored user u
\* has the submitted username and the submitted password is the one u registered
\* with; otherwise the session is left as it was, "Invalid username or password"
\* is flashed, and in both cases the user table is unchanged.
C4_Login == [][LoginDecidedByRegisteredPassword]_vars

\* A stored user's name with a password that is not the registered one
C4_Witness ==
    /\ request.route = "login"
    /\ request.method = "POST"
    /\ users_named(request.form.username) # {}
    /\ registered[request.form.username] # request.form.password
    /\ response.flash = "Invalid username or password"
    /\ session[request.client] = 0

-----------------------------------------------------------------------------
(* C2 *)

OnlyAuthorChanges ==
    (Serves({"edit_article", "delete_article"}) /\ session[request'.client] # 0)
    => LET name == username_of(request'.client)
       IN  /\ \A a \in Article \ Article' : a.author = name
           /\ (\E a \in articles_with_id(request'.article_id) : a.author # name)
              => /\ Article' = Article
                 /\ article_categories' = article_categories

\* C2: an edit or delete request of an authenticated user changes or removes an
\* article only if the user's username is the article's author (no user is an
\* admin); when the article named is someone else's, the article table and the
\* association table are left as they were.
C2_OnlyAuthor == [][OnlyAuthorChanges]_vars

\* An authenticated user has just POSTed an edit or a delete of another's article
C2_Witness ==
    /\ request.route \in {"edit_article", "delete_article"}
    /\ request.method = "POST"
    /\ session[request.client] # 0
    /\ \E a \in articles_with_id(request.article_id) :
          a.author # username_of(request.client)

-----------------------------------------------------------------------------
(* C3 *)

UnauthenticatedRedirected ==
    (Serves({"publish", "edit_article", "delete_article"})
       /\ session[request'.client] = 0)
    => /\ response' = unauthorized
       /\ Article' = Article
       /\ article_categories' = article_categories

\* C3 as claimed: every unauthenticated request to publish, edit or delete,
\* whatever its method, is answered with the redirect to home and the flash
\* message, and changes no article.
C3_AnyMethod == [][UnauthenticatedRedirected]_vars

UnauthenticatedRoutedRedirected ==
    (Serves({"publish", "edit_article", "delete_article"})
       /\ session[request'.client] = 0)
    => /\ request'.method \in route_methods(request'.route) => response' = unauthorized
       /\ Article' = Article
       /\ article_categories' = article_categories

\* C3 amended: an unauthenticated request to publish, edit or delete made with a
\* method its route accepts is answered with the redirect to home and the flash
\* message; made with any method, it changes no article and no association row.
C3_RoutedMethods == [][UnauthenticatedRoutedRedirected]_vars

\* An anonymous POST to delete an article that exists was turned away
C3_Witness ==
    /\ request.route = "delete_article"
    /\ request.method = "POST"
    /\ session[request.client] = 0
    /\ articles_with_id(request.article_id) # {}
    /\ response = unauthorized

-----------------------------------------------------------------------------
(* C5 *)

\* C5: for every selection of offered countries, the empty one included, the
\* article published or edited with it stores the names joined by ", ", and the
\* edit page rendered for that article has selected_countries equal to the
\* selection submitted.
C5_RoundTrip ==
    (request.route = "edit_article" /\ request.method = "GET" /\ response.status = 200)
    => \A a \in articles_with_id(request.article_id) :
         \A f \in CountryForms :
            a.country = join(CommaSpace, f.countries)
            => response.selected_countries = f.countries

-----------------------------------------------------------------------------
(* C6 *)

AuthorDeleteRemoves ==
    \A a \in Article :
      (Serves({"delete_article"}) /\ request'.method = "POST"
         /\ request'.article_id = a.id
         /\ session[request'.client] # 0
         /\ username_of(request'.client) = a.author)
      => /\ Article' = Article \ {a}
         /\ article_categories' = {p \in article_categories : p[1] # a.id}
         /\ a.id \notin Range(ids_of(home_articles'))
         /\ a.id \notin Range(ids_of(source_articles(a.source)'))
         /\ response' = redirect("home", "Article deleted successfully.")

\* C6: a delete POST by the article's author removes the article's row and every
\* association row with its id, after which the article is in neither the home
\* listing nor the listing of its source; the other articles and their
\* association rows are as before.
C6_Delete == [][AuthorDeleteRemoves]_vars

\* A delete has just succeeded and left another article with its categories
C6_Witness ==
    /\ request.route = "delete_article"
    /\ response.flash = "Article deleted successfully."
    /\ Article # {}
    /\ article_categories # {}

-----------------------------------------------------------------------------
(* C7 *)

\* C7: an edit or delete request for an existing article by an authenticated user
\* who is not its author (and not an admin) is answered with a redirect to home
\* and a permission message.
C7_PermissionRedirect ==
    (/\ request.route \in {"edit_article", "delete_article"}
     /\ request.method \in route_methods(request.route)
     /\ session[request.client] # 0
     /\ \E a \in articles_with_id(request.article_id) :
           a.author # username_of(request.client))
    => /\ response.status = 302
       /\ response.location = "home"
       /\ response.flash \in PermissionMessages

-----------------------------------------------------------------------------
(* C8 *)

MissingArticleIs404 ==
    (/\ Serves({"article", "edit_article", "delete_article"})
     /\ request'.method \in route_methods(request'.route)
     /\ request'.route = "article" \/ session[request'.client] # 0
     /\ articles_with_id(request'.article_id) = {})
    => /\ response'.status = 404
       /\ db' = db

\* C8: a view, edit or delete request (authenticated where the route requires it)
\* for an id that is not in the article table is answered 404 and leaves the
\* database unchanged.
C8_NotFound == [][MissingArticleIs404]_vars

-----------------------------------------------------------------------------
(* C9 *)

\* The step is a successful edit POST of article a by its author
EditedByAuthor(a) ==
    /\ Serves({"edit_article"})
    /\ request'.method = "POST"
    /\ request'.article_id = a.id
    /\ session[request'.client] # 0
    /\ username_of(request'.client) = a.author

EditSetsEveryField ==
    \A a \in Article :
      EditedByAuthor(a)
      => LET f == request'.form
         IN  \E b \in Article' :
               /\ b.id = a.id /\ b.author = a.author /\ b.publish_date = a.publish_date
               /\ b.title = f.title
               /\ b.content = f.content
               /\ b.country = join(CommaSpace, f.countries)
               /\ b.article_type = f.type
               /\ b.download_link = f.download_link
               /\ b.source = f.source
               /\ categories_of(article_categories', a.id)
                    = Range(f.categories) \cap Category

\* C9 as claimed: after a successful edit POST by the author, title, content,
\* country, article type, download link, source and the category set are those
\* submitted, and id, author and publish_date are unchanged.
C9_AllFields == [][EditSetsEveryField]_vars

EditSetsFiveFields ==
    \A a \in Article :
      EditedByAuthor(a)
      => LET f == request'.form
         IN  /\ \E b \in Article' :
                  /\ Article' = (Article \ {a}) \cup {b}
                  /\ b.id = a.id /\ b.author = a.author
                  /\ b.publish_date = a.publish_date
                  /\ b.source = a.source
                  /\ b.title = f.title
                  /\ b.content = f.content
                  /\ b.country = join(CommaSpace, f.countries)
                  /\ b.article_type = f.type
                  /\ b.download_link = f.download_link
             /\ article_categories' = article_categories
             /\ response' = redirect("article", "Article updated successfully.")

\* C9 amended: after a successful edit POST by the author, title, content,
\* country, article type and download link are those submitted, while id, author,
\* publish_date, source and the category set are unchanged.
C9_FiveFields == [][EditSetsFiveFields]_vars

\* An edit succeeded whose form named another source and other categories than
\* the article keeps
C9_Witness ==
    /\ request.route = "edit_article"
    /\ request.method = "POST"
    /\ response.flash = "Article updated successfully."
    /\ \E a \in articles_with_id(request.article_id) :
          /\ a.title = request.form.title
          /\ a.source # request.form.source
          /\ categories_of(article_categories, a.id)
               # Range(request.form.categories) \cap Category

-----------------------------------------------------------------------------
(* C10 *)

AuthorsAreUsers == \A a \in Article : users_named(a.author) # {}

PublishCreatesOne ==
    (Serves({"publish"}) /\ request'.method = "POST" /\ session[request'.client] # 0)
    => LET f == request'.form
       IN  /\ \E b \in Article' \ Article :
                /\ Article' = Article \cup {b}
                /\ b.author = username_of(request'.client)
                /\ categories_of(article_categories', b.id)
                     = Range(f.categories) \cap Category
                /\ {p \in article_categories' : p[1] # b.id} = article_categories
           /\ response' = redirect("home", "Article published successfully.")

\* C10: a publish POST by an authenticated user adds exactly one article, whose
\* author is the session user's username and whose categories are the submitted
\* ids that are in the category table, the others being dropped without failing
\* the request; and every stored article's author is the username of a stored
\* user.
C10_Publish == [](AuthorsAreUsers) /\ [][PublishCreatesOne]_vars

\* A publish succeeded although its form named a category id that does not exist
C10_Witness ==
    /\ request.route = "publish"
    /\ request.method = "POST"
    /\ response.flash = "Article published successfully."
    /\ Range(request.form.categories) \ Category # {}
    /\ Range(request.form.categories) \cap Category # {}
    /\ Cardinality(Article) = 2

=============================================================================
